---- MODULE Spec2Model ----
(***************************************************************************)
(* Offline-first synchronisation core of carnet-naturaliste:               *)
(* src/services/storageService.ts (Local Cache, Pending Operation Log,     *)
(* create/update/delete, queue drain) against a Supabase table             *)
(* (src/unnamed/part_000).  The drain is cut at its `await`s, one action  *)
(* per synchronous segment; create, update, delete and list are one action *)
(* each, parameterised by the answer of their remote call, and run while   *)
(* no drain is suspended, as App.loadData awaits the drain before it       *)
(* loads the list.                                                         *)
(***************************************************************************)
EXTENDS Integers, Sequences, FiniteSets, TLC

\* ------------------------------------------------------------------ bounds
MaxQueue == 2      \* longest Pending Operation Log the model lets grow
MaxCache == 2      \* longest Local Cache, and longest list shown, the model lets grow
MaxBatch == 2      \* most records in an imported file

\* ------------------------------------------------------------ value domains
Times == {0, 1}    \* the values of Date.now() the model tells apart
SrvNums == {1}     \* the ids uuid_generate_v4() hands out, in order

\* ------------------------------------------------------------- identifiers
\* observation.id is a string; only its shape matters to the code.
NoId      == [k |-> "none", n |-> 0]     \* absent / empty id (falsy)
TempId(t) == [k |-> "temp", n |-> t]     \* `temp-${Date.now()}`
FormId(t) == [k |-> "form", n |-> t]     \* Date.now().toString()
SrvId(n)  == [k |-> "srv",  n |-> n]     \* uuid_generate_v4()

\* String(id).startsWith('temp-')
StartsWithTemp(id) == id.k = "temp"
\* the id column is of type uuid: any other text is rejected by the store
IsUuid(id) == id.k = "srv"

VARIABLES
    online,    \* navigator.onLine
    user,      \* supabase.auth.getUser() yields a user
    clock,     \* Date.now()
    queue,     \* localStorage[QUEUE_KEY], parsed
    cache,     \* localStorage[LOCAL_CACHE_KEY], parsed
    remote,    \* rows of the observations table: [id, date]
    nextSrv,   \* next id the table's default generates
    dpc,       \* processOfflineQueue: "idle", "auth", "call", "fetch"
    dq,        \* its local `queue` (read at line 258); kept as history once it returned
    di,        \* index in dq of the item whose remote call is in flight
    dnew,      \* its local `newQueue`
    douts,     \* history: <<index, outcome>> of the items processed by this drain
    dres,      \* history: how the last drain ended
    issued,    \* history: <<action, id>> of the calls that took the offline path
    last,      \* history: the handler segment that ran last, and what it returned
    observations,  \* App's `observations` state: the records the UI shows
    imp,       \* history: what the last import started from and was given
    d2         \* a second call of processOfflineQueue: its position and locals

storeVars == <<queue, cache, remote, nextSrv>>
envVars   == <<online, user, clock>>
drainVars == <<dpc, dq, di, dnew, douts, dres>>
appVars   == <<observations, imp, d2>>
vars == <<online, user, clock, queue, cache, remote, nextSrv,
          dpc, dq, di, dnew, douts, dres, issued, last, observations, imp, d2>>

\* ----------------------------------------------------------------- helpers
SeqToSet(s) == {s[i] : i \in 1..Len(s)}
Ids(s) == {s[i].id : i \in 1..Len(s)}

RECURSIVE SelectSeq2(_, _)
\* Array.prototype.filter on ids
SelectSeq2(s, id) ==
    IF s = <<>> THEN <<>>
    ELSE IF Head(s).id # id THEN <<Head(s)>> \o SelectSeq2(Tail(s), id)
         ELSE SelectSeq2(Tail(s), id)

mapToRow(obs) == [date |-> obs.date]
mapToObservation(row) == [id |-> row.id, date |-> row.date]

\* a log that grows at its head (unshift in place of push)
addToQueueAtHead(q, action, payload, now) ==
    <<[action |-> action, payload |-> payload, timestamp |-> now]>> \o q

addToQueue(q, action, payload, now) ==
    Append(q, [action |-> action, payload |-> payload, timestamp |-> now])

getLocalCache == cache

setLocalCache(obsArray) == obsArray

\* a cache update that replaces no entry
ReplaceNothing(c, observation) == c

\* currentCache.map(obs => obs.id === observation.id ? observation : obs)
ReplaceById(c, observation) ==
    [i \in 1..Len(c) |-> IF c[i].id = observation.id THEN observation ELSE c[i]]

\* currentCache.filter(obs => obs.id !== id)
RemoveById(c, id) == SelectSeq2(c, id)

\* ------------------------------------------------------------ Remote Store
\* Row level security: a request sees and touches only the rows of its user.
RemoteInsert(rem, row, n) == rem \cup {[id |-> SrvId(n), date |-> row.date]}

RemoteUpdate(rem, row, id, u) ==
    IF u THEN {IF r.id = id THEN [r EXCEPT !.date = row.date] ELSE r : r \in rem}
    ELSE rem

RemoteDelete(rem, id, u) ==
    IF u THEN {r \in rem : r.id # id} ELSE rem

RECURSIVE OrderByDateDesc(_)
\* .order('date', { ascending: false }); rows of equal date in id order
OrderByDateDesc(rows) ==
    IF rows = {} THEN <<>>
    ELSE LET r == CHOOSE x \in rows :
                    \A y \in rows : x.date > y.date
                                    \/ (x.date = y.date /\ x.id.n <= y.id.n)
         IN <<r>> \o OrderByDateDesc(rows \ {r})

RemoteSelect(rem, u) == IF u THEN OrderByDateDesc(rem) ELSE <<>>

\* What a remote call can answer: "ok" (applied), "err" (the promise resolves
\* with {error}), "throw" (the promise rejects).
Failures == {"err", "throw"}

NoObs == [id |-> NoId, date |-> 0]

\* What the handler that ran last was called with and gave back: `arg` the id
\* it was called with, `out` the answer of its remote call, `res` what its
\* caller gets ("ok", or "error": the promise is rejected), `obs` the record
\* returned (create) or applied (update, delete).
Ret(op, path, arg, out, res, obs) ==
    [op |-> op, path |-> path, arg |-> arg, out |-> out, res |-> res, obs |-> obs]

\* ids a caller can name: those it has seen in the cache or in the store
KnownIds == Ids(cache) \cup {r.id : r \in remote}

\* no import has run
NoImport == [cur |-> <<>>, batch |-> <<>>]

\* no second call of processOfflineQueue is suspended
NoDrain == [pc |-> "idle", q |-> <<>>, i |-> 0, new |-> <<>>]

\* -------------------------------------------------------------------- Init
Init ==
    /\ online = TRUE
    /\ user = TRUE
    /\ clock = 0
    /\ queue = <<>>
    /\ cache = <<>>
    /\ remote = {}
    /\ nextSrv = 1
    /\ dpc = "idle"
    /\ dq = <<>>
    /\ di = 0
    /\ dnew = <<>>
    /\ douts = <<>>
    /\ dres = "none"
    /\ issued = <<>>
    /\ last = Ret("none", "none", NoId, "none", "none", NoObs)
    /\ observations = <<>>
    /\ imp = NoImport
    /\ d2 = NoDrain

\* The history variables describe the handler that ran last: a create, update,
\* delete or fetch that runs after a drain has returned forgets that drain.
ForgetDrain ==
    /\ UNCHANGED <<dpc, di, dnew>>
    /\ dq' = IF dpc = "idle" THEN <<>> ELSE dq
    /\ douts' = IF dpc = "idle" THEN <<>> ELSE douts
    /\ dres' = IF dpc = "idle" THEN "none" ELSE dres

\* ------------------------------------------------------------- environment
GoOnline  == ~online /\ online' = TRUE  /\ UNCHANGED <<user, clock, storeVars, drainVars, issued, last>>
GoOffline == online  /\ online' = FALSE /\ UNCHANGED <<user, clock, storeVars, drainVars, issued, last>>
Login     == ~user /\ user' = TRUE  /\ UNCHANGED <<online, clock, storeVars, drainVars, issued, last>>
Logout    == user  /\ user' = FALSE /\ UNCHANGED <<online, clock, storeVars, drainVars, issued, last>>
\* Time passes.  Only the order and equality of the values of Date.now() that
\* end up in an id or a timestamp matter, so the clock moves on only from a
\* value some stored record carries.
ClockInUse ==
    \/ \E i \in 1..Len(queue) : queue[i].timestamp = clock \/ queue[i].payload.id.n = clock
    \/ \E i \in 1..Len(cache) : cache[i].id.k # "srv" /\ cache[i].id.n = clock

Tick ==
    /\ clock + 1 \in Times
    /\ ClockInUse
    /\ clock' = clock + 1
    /\ UNCHANGED <<online, user, storeVars, drainVars, issued, last>>

\* an offline create that queues the record but leaves the cache alone
SaveOfflineUnseen(observation) ==
    /\ ~online
    /\ Len(queue) < MaxQueue /\ Len(cache) < MaxCache
    /\ LET offlineObs == [observation EXCEPT
                            !.id = IF observation.id # NoId THEN observation.id
                                   ELSE TempId(clock)]
       IN /\ queue' = addToQueue(queue, "INSERT", offlineObs, clock)
          /\ issued' = Append(issued, <<"INSERT", offlineObs.id>>)
          /\ last' = Ret("save", "offline", observation.id, "none", "ok", offlineObs)
    /\ ForgetDrain
    /\ UNCHANGED <<envVars, cache, remote, nextSrv>>

\* --------------------------------------------------------- saveObservation
\* lines 103-124: the offline branch
SaveOffline(observation) ==
    /\ ~online
    /\ Len(queue) < MaxQueue /\ Len(cache) < MaxCache
    /\ LET offlineObs == [observation EXCEPT
                            !.id = IF observation.id # NoId THEN observation.id
                                   ELSE TempId(clock)]
       IN /\ queue' = addToQueue(queue, "INSERT", offlineObs, clock)
          /\ cache' = setLocalCache(<<offlineObs>> \o getLocalCache)
          /\ issued' = Append(issued, <<"INSERT", offlineObs.id>>)
          /\ last' = Ret("save", "offline", observation.id, "none", "ok", offlineObs)
    /\ ForgetDrain
    /\ UNCHANGED <<envVars, remote, nextSrv>>

\* line 105: online without a user
SaveUnauth(observation) ==
    /\ online /\ ~user
    /\ last' = Ret("save", "online", observation.id, "none", "error", NoObs)
    /\ ForgetDrain
    /\ UNCHANGED <<envVars, storeVars, issued>>

\* lines 126-145: the insert is sent and answers `out`
SaveOnline(observation, out) ==
    /\ online /\ user
    /\ IF out = "ok"
       THEN /\ nextSrv \in SrvNums /\ Len(cache) < MaxCache
            /\ LET row == mapToRow(observation)
                   data == [id |-> SrvId(nextSrv), date |-> row.date]
                   savedObs == mapToObservation(data)
               IN /\ remote' = RemoteInsert(remote, row, nextSrv)
                  /\ nextSrv' = nextSrv + 1
                  /\ cache' = setLocalCache(<<savedObs>> \o getLocalCache)
                  /\ last' = Ret("save", "online", observation.id, out, "ok", savedObs)
            /\ UNCHANGED queue
       ELSE /\ last' = Ret("save", "online", observation.id, out, "error", NoObs)
            /\ UNCHANGED storeVars
    /\ ForgetDrain
    /\ UNCHANGED <<envVars, issued>>

\* ------------------------------------------------------- updateObservation
\* lines 148-161
UpdateOffline(observation) ==
    /\ ~online
    /\ Len(queue) < MaxQueue
    /\ queue' = addToQueue(queue, "UPDATE", observation, clock)
    /\ cache' = setLocalCache(ReplaceById(getLocalCache, observation))
    /\ issued' = Append(issued, <<"UPDATE", observation.id>>)
    /\ last' = Ret("update", "offline", observation.id, "none", "ok", observation)
    /\ ForgetDrain
    /\ UNCHANGED <<envVars, remote, nextSrv>>

\* an online update that, when its remote call fails, queues the update and
\* applies it to the cache as the offline branch does
UpdateOnlineFallingBack(observation, out) ==
    /\ online
    /\ IF out = "ok"
       THEN /\ user /\ IsUuid(observation.id)
            /\ remote' = RemoteUpdate(remote, mapToRow(observation), observation.id, user)
            /\ cache' = setLocalCache(ReplaceById(getLocalCache, observation))
            /\ last' = Ret("update", "online", observation.id, out, "ok", observation)
            /\ UNCHANGED <<queue, nextSrv, issued>>
       ELSE /\ Len(queue) < MaxQueue
            /\ queue' = addToQueue(queue, "UPDATE", observation, clock)
            /\ cache' = setLocalCache(ReplaceById(getLocalCache, observation))
            /\ issued' = Append(issued, <<"UPDATE", observation.id>>)
            /\ last' = Ret("update", "online", observation.id, out, "ok", observation)
            /\ UNCHANGED <<remote, nextSrv>>
    /\ ForgetDrain
    /\ UNCHANGED envVars

\* lines 163-178.  Without a user the row carries user_id 'offline-user',
\* which is no uuid, and an id that is no uuid matches no row: the store
\* answers with an error.
UpdateOnline(observation, out) ==
    /\ online
    /\ IF out = "ok"
       THEN /\ user /\ IsUuid(observation.id)
            /\ remote' = RemoteUpdate(remote, mapToRow(observation), observation.id, user)
            /\ cache' = setLocalCache(ReplaceById(getLocalCache, observation))
            /\ last' = Ret("update", "online", observation.id, out, "ok", observation)
            /\ UNCHANGED <<queue, nextSrv>>
       ELSE /\ last' = Ret("update", "online", observation.id, out, "error", observation)
            /\ UNCHANGED storeVars
    /\ ForgetDrain
    /\ UNCHANGED <<envVars, issued>>

\* ------------------------------------------------------- deleteObservation
\* lines 181-191
DeleteOffline(id) ==
    /\ ~online
    /\ Len(queue) < MaxQueue
    /\ queue' = addToQueue(queue, "DELETE", [id |-> id], clock)
    /\ cache' = setLocalCache(RemoveById(getLocalCache, id))
    /\ issued' = Append(issued, <<"DELETE", id>>)
    /\ last' = Ret("delete", "offline", id, "none", "ok", NoObs)
    /\ ForgetDrain
    /\ UNCHANGED <<envVars, remote, nextSrv>>

\* an online delete that drops the record from the cache before the store
\* has answered
DeleteOnlineOptimistic(id, out) ==
    /\ online
    /\ cache' = setLocalCache(RemoveById(getLocalCache, id))
    /\ IF out = "ok"
       THEN /\ IsUuid(id)
            /\ remote' = RemoteDelete(remote, id, user)
            /\ last' = Ret("delete", "online", id, out, "ok", NoObs)
            /\ UNCHANGED <<queue, nextSrv>>
       ELSE /\ last' = Ret("delete", "online", id, out, "error", NoObs)
            /\ UNCHANGED <<queue, remote, nextSrv>>
    /\ ForgetDrain
    /\ UNCHANGED <<envVars, issued>>

\* lines 193-206; no user is asked for: row level security then hides every row
DeleteOnline(id, out) ==
    /\ online
    /\ IF out = "ok"
       THEN /\ IsUuid(id)
            /\ remote' = RemoteDelete(remote, id, user)
            /\ cache' = setLocalCache(RemoveById(getLocalCache, id))
            /\ last' = Ret("delete", "online", id, out, "ok", NoObs)
            /\ UNCHANGED <<queue, nextSrv>>
       ELSE /\ last' = Ret("delete", "online", id, out, "error", NoObs)
            /\ UNCHANGED storeVars
    /\ ForgetDrain
    /\ UNCHANGED <<envVars, issued>>

\* --------------------------------------------------------- getObservations
\* what getObservations gave back: `list` is the array it returned
RetList(path, out, list) ==
    [op |-> "list", path |-> path, arg |-> NoId, out |-> out, res |-> "ok",
     obs |-> NoObs, list |-> list]

\* a fetch that, when the store cannot be read, empties the cache
GetOnlineClearing(out) ==
    /\ online
    /\ IF out = "ok"
       THEN /\ LET fetched == RemoteSelect(remote, user)
               IN /\ cache' = setLocalCache(fetched)
                  /\ last' = RetList("online", out, fetched)
            /\ UNCHANGED <<queue, remote, nextSrv>>
       ELSE /\ cache' = setLocalCache(<<>>)
            /\ last' = RetList("online", out, <<>>)
            /\ UNCHANGED <<queue, remote, nextSrv>>
    /\ ForgetDrain
    /\ UNCHANGED <<envVars, issued>>

\* lines 80-83
GetOffline ==
    /\ ~online
    /\ last' = RetList("offline", "none", getLocalCache)
    /\ ForgetDrain
    /\ UNCHANGED <<envVars, storeVars, issued>>

\* lines 85-100
GetOnline(out) ==
    /\ online
    /\ IF out = "ok"
       THEN /\ LET fetched == RemoteSelect(remote, user)
               IN /\ cache' = setLocalCache(fetched)
                  /\ last' = RetList("online", out, fetched)
            /\ UNCHANGED <<queue, remote, nextSrv>>
       ELSE /\ last' = RetList("online", out, getLocalCache)
            /\ UNCHANGED storeVars
    /\ ForgetDrain
    /\ UNCHANGED <<envVars, issued>>

\* ----------------------------------------------------- processOfflineQueue
\* what the log holds, as the callers see it: <<action, target id>> per entry
Proj(q) == [i \in 1..Len(q) |-> <<q[i].action, q[i].payload.id>>]

\* a loop that visits the log from its newest entry to its oldest
NewestFirstOrder(q) == [k \in 1..Len(q) |-> Len(q) + 1 - k]

\* `for (const item of queue)`: the k-th iteration visits position k
IterationOrder(q) == [k \in 1..Len(q) |-> k]

\* line 276, `String(id).startsWith('temp-')`: no declaration of `id` is in
\* scope in processOfflineQueue (the payload's id is item.payload.id), so the
\* INSERT branch raises a ReferenceError inside the try block, after mapToRow
\* and before either remote call of lines 277-279.
IdIsInScope == FALSE

ThrowsBeforeCall(item) == item.action = "INSERT" /\ ~IdIsInScope

\* whether the store can answer "ok" to the call made for `item`
CanAccept(item) ==
    IF item.action = "INSERT" THEN user /\ nextSrv \in SrvNums
    ELSE IsUuid(item.payload.id)

\* lines 275-285: the effect on the table of the call made for `item`; the row
\* built by mapToRow has no id, so insert and upsert both add a row under a
\* generated id
ApplyItem(rem, item, n, u) ==
    CASE item.action = "INSERT" -> RemoteInsert(rem, mapToRow(item.payload), n)
      [] item.action = "UPDATE" -> RemoteUpdate(rem, mapToRow(item.payload), item.payload.id, u)
      [] item.action = "DELETE" -> RemoteDelete(rem, item.payload.id, u)

RECURSIVE RunLoop(_, _, _, _)
\* lines 267-291 from iteration k up to the next await: items that throw before
\* their call are kept (line 289) and the loop goes on
RunLoop(q, k, new, outs) ==
    IF k > Len(q) THEN [k |-> k, new |-> new, outs |-> outs]
    ELSE LET pos == IterationOrder(q)[k]
         IN IF ThrowsBeforeCall(q[pos])
            THEN RunLoop(q, k + 1, Append(new, q[pos]), Append(outs, <<pos, "nocall">>))
            ELSE [k |-> k, new |-> new, outs |-> outs]

\* a drain that refreshes the cache whatever it wrote back
RefreshAlways(new) == TRUE

\* whether the drain refreshes the cache after writing `new` back (line 296)
RefreshAfter(new) == Len(new) = 0

\* the loop resumes at iteration k; at its end, lines 293-297
Proceed(k, new, outs) ==
    LET r == RunLoop(dq, k, new, outs)
    IN /\ douts' = r.outs
       /\ IF r.k <= Len(dq)
          THEN /\ dpc' = "call" /\ di' = r.k /\ dnew' = r.new
               /\ UNCHANGED <<dres, dq, queue, issued>>
          ELSE /\ di' = 0 /\ dnew' = <<>> /\ dq' = dq
               /\ queue' = r.new
               /\ issued' = Proj(r.new)
               /\ IF RefreshAfter(r.new)
                  THEN dpc' = "fetch" /\ dres' = "running"
                  ELSE dpc' = "idle" /\ dres' = "kept"

DrainRan == Ret("drain", "none", NoId, "none", "none", NoObs)

\* a drain that does not look at navigator.onLine
ProcessOfflineQueueUngated ==
    /\ dpc = "idle"
    /\ IF Len(queue) = 0
       THEN /\ dres' = "empty"
            /\ dq' = <<>>
            /\ UNCHANGED dpc
       ELSE /\ dres' = "running"
            /\ dpc' = "auth"
            /\ dq' = queue
    /\ di' = 0 /\ dnew' = <<>> /\ douts' = <<>>
    /\ last' = DrainRan
    /\ UNCHANGED <<envVars, storeVars, issued>>

\* lines 256-262
ProcessOfflineQueue ==
    /\ dpc = "idle"
    /\ IF ~online
       THEN /\ dres' = "offline"
            /\ dq' = <<>>
            /\ UNCHANGED dpc
       ELSE IF Len(queue) = 0
       THEN /\ dres' = "empty"
            /\ dq' = <<>>
            /\ UNCHANGED dpc
       ELSE /\ dres' = "running"
            /\ dpc' = "auth"
            /\ dq' = queue
    /\ di' = 0 /\ dnew' = <<>> /\ douts' = <<>>
    /\ last' = DrainRan
    /\ UNCHANGED <<envVars, storeVars, issued>>

\* a drain that goes on whoever is signed in
DrainAuthUnchecked ==
    /\ dpc = "auth"
    /\ Proceed(1, <<>>, <<>>)
    /\ last' = DrainRan
    /\ UNCHANGED <<envVars, cache, remote, nextSrv>>

\* lines 262-263, then the loop up to its first remote call
DrainAuth ==
    /\ dpc = "auth"
    /\ IF ~user
       THEN /\ dpc' = "idle" /\ dres' = "noauth" /\ dq' = dq
            /\ UNCHANGED <<di, dnew, douts, queue, issued>>
       ELSE Proceed(1, <<>>, <<>>)
    /\ last' = DrainRan
    /\ UNCHANGED <<envVars, cache, remote, nextSrv>>

\* a drain without the try/catch of lines 268-290: a rejected call ends the pass
DrainCallDoneRaising(out) ==
    /\ dpc = "call"
    /\ out = "throw"
    /\ dpc' = "idle" /\ dres' = "threw"
    /\ douts' = Append(douts, <<IterationOrder(dq)[di], out>>)
    /\ last' = DrainRan
    /\ UNCHANGED <<envVars, storeVars, dq, di, dnew, issued>>

\* the remote call of the current item answers (lines 277-290); a rejected
\* promise is caught and the item kept, a resolved one is not looked at
DrainCallDone(out) ==
    /\ dpc = "call"
    /\ LET pos == IterationOrder(dq)[di]
           item == dq[pos]
       IN /\ IF out = "ok"
             THEN /\ CanAccept(item)
                  /\ remote' = ApplyItem(remote, item, nextSrv, user)
                  /\ nextSrv' = IF item.action = "INSERT" THEN nextSrv + 1 ELSE nextSrv
             ELSE UNCHANGED <<remote, nextSrv>>
          /\ Proceed(di + 1,
                     IF out = "throw" THEN Append(dnew, item) ELSE dnew,
                     Append(douts, <<pos, out>>))
    /\ last' = DrainRan
    /\ UNCHANGED <<envVars, cache>>

\* lines 297-300: the full fetch answers
DrainFetchDone(out) ==
    /\ dpc = "fetch"
    /\ dpc' = "idle"
    /\ IF out = "ok"
       THEN /\ cache' = setLocalCache(RemoteSelect(remote, user))
            /\ dres' = "refreshed"
       ELSE /\ dres' = IF out = "err" THEN "nodata" ELSE "threw"
            /\ UNCHANGED cache
    /\ last' = DrainRan
    /\ UNCHANGED <<envVars, queue, remote, nextSrv, dq, di, dnew, douts, issued>>

\* ----------------------------------------------------------------- restart
\* The page is closed and opened again: what localStorage holds survives (the
\* module keeps no copy of it, lines 66 and 72 parse it at each use), a
\* suspended drain is lost with its locals.
Restart ==
    /\ dpc' = "idle" /\ dq' = <<>> /\ di' = 0 /\ dnew' = <<>>
    /\ douts' = <<>> /\ dres' = "none"
    /\ last' = Ret("restart", "none", NoId, "none", "none", NoObs)
    /\ UNCHANGED <<envVars, storeVars, issued>>

\* -------------------------------------------------------------------- Next
Outcomes == {"ok"} \cup Failures

\* the record content is its `date` column, also the sort key of a fetch: a new
\* record carries date 1, an edit moves it to date 2
NewObs == {[id |-> i, date |-> 1] : i \in {NoId, FormId(clock)}}
EditObs == {[id |-> i, date |-> 2] : i \in KnownIds}

\* no drain is suspended on a remote call
Idle == dpc = "idle"

\* the environment moves; no handler runs
Env ==
    \/ GoOnline /\ UNCHANGED appVars
    \/ GoOffline /\ UNCHANGED appVars
    \/ Login /\ UNCHANGED appVars
    \/ Logout /\ UNCHANGED appVars
    \/ Tick /\ UNCHANGED appVars

\* create, update, delete and list called on the storage service, each run
\* from call to return.  Handlers run one at a time: none is called while a
\* drain is suspended.
Crud ==
    \/ \E o \in NewObs : Idle /\ SaveOffline(o) /\ UNCHANGED appVars
    \/ \E o \in NewObs : Idle /\ SaveUnauth(o) /\ UNCHANGED appVars
    \/ \E o \in NewObs, out \in Outcomes : Idle /\ SaveOnline(o, out) /\ UNCHANGED appVars
    \/ \E o \in EditObs : Idle /\ UpdateOffline(o) /\ UNCHANGED appVars
    \/ \E o \in EditObs, out \in Outcomes : Idle /\ UpdateOnline(o, out) /\ UNCHANGED appVars
    \/ \E id \in KnownIds : Idle /\ DeleteOffline(id) /\ UNCHANGED appVars
    \/ \E id \in KnownIds, out \in Outcomes : Idle /\ DeleteOnline(id, out) /\ UNCHANGED appVars
    \/ Idle /\ GetOffline /\ UNCHANGED appVars
    \/ \E out \in Outcomes : Idle /\ GetOnline(out) /\ UNCHANGED appVars

\* the drain, one action per segment between two awaits
Drain ==
    \/ ProcessOfflineQueue /\ UNCHANGED appVars
    \/ DrainAuth /\ UNCHANGED appVars
    \/ \E out \in Outcomes : DrainCallDone(out) /\ UNCHANGED appVars
    \/ \E out \in Outcomes : DrainFetchDone(out) /\ UNCHANGED appVars
    \/ Restart /\ UNCHANGED appVars

Next == Env \/ Crud \/ Drain

Spec == Init /\ [][Next]_vars

\* ------------------------------------------------- overlapping handlers
\* processOfflineQueue holds no lock and sets no flag: a second call made while
\* the first is suspended runs the same code on its own locals (d2).
\* lines 256-262, second call
ProcessOfflineQueue2 ==
    /\ dpc # "idle" /\ d2.pc = "idle"
    /\ IF ~online \/ Len(queue) = 0
       THEN d2' = NoDrain
       ELSE d2' = [NoDrain EXCEPT !.pc = "auth", !.q = queue]
    /\ UNCHANGED <<envVars, storeVars, drainVars, issued, last, observations, imp>>

\* the loop of the second call resumes at iteration k; at its end, lines 293-297
Proceed2(k, new, outs) ==
    LET r == RunLoop(d2.q, k, new, outs)
    IN IF r.k <= Len(d2.q)
       THEN /\ d2' = [d2 EXCEPT !.pc = "call", !.i = r.k, !.new = r.new]
            /\ UNCHANGED <<queue, issued>>
       ELSE /\ queue' = r.new
            /\ issued' = Proj(r.new)
            /\ d2' = IF RefreshAfter(r.new)
                     THEN [d2 EXCEPT !.pc = "fetch", !.i = 0, !.new = <<>>]
                     ELSE NoDrain

\* lines 262-263 of the second call, then its loop up to the first remote call
DrainAuth2 ==
    /\ d2.pc = "auth"
    /\ IF ~user
       THEN d2' = NoDrain /\ UNCHANGED <<queue, issued>>
       ELSE Proceed2(1, <<>>, <<>>)
    /\ UNCHANGED <<envVars, cache, remote, nextSrv, drainVars, last, observations, imp>>

\* lines 277-290 of the second call
DrainCallDone2(out) ==
    /\ d2.pc = "call"
    /\ LET pos == IterationOrder(d2.q)[d2.i]
           item == d2.q[pos]
       IN /\ IF out = "ok"
             THEN /\ CanAccept(item)
                  /\ remote' = ApplyItem(remote, item, nextSrv, user)
                  /\ nextSrv' = IF item.action = "INSERT" THEN nextSrv + 1 ELSE nextSrv
             ELSE UNCHANGED <<remote, nextSrv>>
          /\ Proceed2(d2.i + 1,
                      IF out = "throw" THEN Append(d2.new, item) ELSE d2.new,
                      <<>>)
    /\ UNCHANGED <<envVars, cache, drainVars, last, observations, imp>>

\* lines 297-300 of the second call
DrainFetchDone2(out) ==
    /\ d2.pc = "fetch"
    /\ d2' = NoDrain
    /\ IF out = "ok"
       THEN cache' = setLocalCache(RemoteSelect(remote, user))
       ELSE UNCHANGED cache
    /\ UNCHANGED <<envVars, queue, remote, nextSrv, drainVars, issued, last,
                   observations, imp>>

\* the second call of the drain
Drain2 ==
    \/ ProcessOfflineQueue2
    \/ DrainAuth2
    \/ \E out \in Outcomes : DrainCallDone2(out)
    \/ \E out \in Outcomes : DrainFetchDone2(out)

\* create, update and delete called offline, also while a drain is suspended
\* on a remote call (the connection dropped after the drain had started)
OfflineCrud ==
    \/ \E o \in NewObs : SaveOffline(o) /\ UNCHANGED appVars
    \/ \E o \in EditObs : UpdateOffline(o) /\ UNCHANGED appVars
    \/ \E id \in KnownIds : DeleteOffline(id) /\ UNCHANGED appVars

\* a create called online while no drain is suspended
OnlineCreate ==
    \E o \in NewObs, out \in Outcomes : Idle /\ SaveOnline(o, out) /\ UNCHANGED appVars

\* the first drain, and a restart that loses both suspended drains
DrainFirst ==
    \/ ProcessOfflineQueue /\ UNCHANGED appVars
    \/ DrainAuth /\ UNCHANGED appVars
    \/ \E out \in Outcomes : DrainCallDone(out) /\ UNCHANGED appVars
    \/ \E out \in Outcomes : DrainFetchDone(out) /\ UNCHANGED appVars
    \/ Restart /\ d2' = NoDrain /\ UNCHANGED <<observations, imp>>

\* the connection drops and comes back
Connectivity ==
    \/ GoOnline /\ UNCHANGED appVars
    \/ GoOffline /\ UNCHANGED appVars

\* one call of the drain, from its first line to its return
DrainOnce ==
    \/ ProcessOfflineQueue /\ UNCHANGED appVars
    \/ DrainAuth /\ UNCHANGED appVars
    \/ \E out \in Outcomes : DrainCallDone(out) /\ UNCHANGED appVars
    \/ \E out \in Outcomes : DrainFetchDone(out) /\ UNCHANGED appVars

NextRace == Connectivity \/ OnlineCreate \/ OfflineCrud \/ DrainOnce

\* one drain, and the offline mutations the event loop can run between two of
\* its segments
SpecRace == Init /\ [][NextRace]_vars

\* no create, update or delete runs while a drain is suspended
Quiet == Idle /\ d2.pc = "idle"

QuietCrud ==
    \/ \E o \in NewObs, out \in Outcomes : Quiet /\ SaveOnline(o, out) /\ UNCHANGED appVars
    \/ \E o \in EditObs : Quiet /\ UpdateOffline(o) /\ UNCHANGED appVars
    \/ \E id \in KnownIds : Quiet /\ DeleteOffline(id) /\ UNCHANGED appVars

NextOverlap == Env \/ QuietCrud \/ DrainFirst \/ Drain2

\* two calls of the drain, interleaved by the event loop
SpecOverlap == Init /\ [][NextOverlap]_vars

\* ---------------------------------------------------------------- App.tsx
\* mergedObservations.findIndex(existingObs => existingObs.id === newObs.id):
\* the first position holding the id, 0 for -1
RECURSIVE findIndex(_, _, _)
findIndex(m, id, from) ==
    IF from > Len(m) THEN 0
    ELSE IF m[from].id = id THEN from
    ELSE findIndex(m, id, from + 1)

\* a fold step that appends whatever the batch holds
MergeOneAppending(m, newObs) == Append(m, newObs)

\* App.tsx lines 205-212: one step of the forEach
MergeOne(m, newObs) ==
    LET index == findIndex(m, newObs.id, 1)
    IN IF index # 0 THEN [m EXCEPT ![index] = newObs]
       ELSE Append(m, newObs)

\* a forEach that visits the batch from its last record to its first
LastToFirst(batch) == [k \in 1..Len(batch) |-> Len(batch) + 1 - k]

\* importedObservations.forEach: the k-th step takes the k-th record
ForEachOrder(batch) == [k \in 1..Len(batch) |-> k]

RECURSIVE MergeFrom(_, _, _)
\* App.tsx lines 200-213
MergeFrom(m, batch, k) ==
    IF k > Len(batch) THEN m
    ELSE MergeFrom(MergeOne(m, batch[ForEachOrder(batch)[k]]), batch, k + 1)

Merge(current, batch) == MergeFrom(current, batch, 1)

\* the ids the upsert of an import may draw from the table's default
SyncNums == 1..(2 * MaxCache)

\* syncObservations lines 214-218: the rows built by mapToRow carry no id, so
\* the upsert adds each of them under a generated id
RECURSIVE SyncRows(_, _, _)
SyncRows(rem, obsArray, n) ==
    IF obsArray = <<>> THEN rem
    ELSE SyncRows(RemoteInsert(rem, mapToRow(Head(obsArray)), n), Tail(obsArray), n + 1)

\* whether the store can answer "ok" to syncObservations(obsArray), lines
\* 211-212, the generated ids being drawn from `nums`
CanSync(obsArray, nums) ==
    /\ online /\ user
    /\ \A i \in 1..Len(obsArray) : nextSrv + i - 1 \in nums

\* INITIAL_OBSERVATIONS (./constants, imported at App.tsx line 13): its content
\* is not known here, it is empty or it is not
SeedId == [k |-> "seed", n |-> 0]
SeedChoices == {<<>>, <<[id |-> SeedId, date |-> 1]>>}

\* loadData has been called and has not reached setIsLoading(false)
LoadStarted == Ret("load", "none", NoId, "none", "none", NoObs)
IsLoading == last = DrainRan \/ last = LoadStarted

\* the page shows the list (App.tsx line 324 renders nothing else before)
Loaded == Idle /\ last.op \notin {"none", "restart", "load", "drain"}

\* App.tsx lines 49-56: the page is opened; loadData starts and, online, calls
\* the drain
AppMount ==
    /\ Idle
    /\ observations' = <<>>
    /\ imp' = NoImport
    /\ UNCHANGED d2
    /\ IF online
       THEN ProcessOfflineQueue
       ELSE /\ last' = LoadStarted
            /\ dq' = <<>> /\ douts' = <<>> /\ dres' = "none"
            /\ UNCHANGED <<dpc, di, dnew, envVars, storeVars, issued>>

\* App.tsx lines 58-69: getObservations answers `out`; an empty list is
\* replaced online by the seed records, which syncObservations (answering
\* `out2`) sends first
LoadList(out, out2, seed) ==
    /\ Idle /\ IsLoading
    /\ LET fetched == online /\ out = "ok"
           loadedObservations == IF fetched THEN RemoteSelect(remote, user)
                                 ELSE getLocalCache
       IN /\ cache' = IF fetched THEN setLocalCache(loadedObservations) ELSE cache
          /\ IF Len(loadedObservations) = 0 /\ online
             THEN IF out2 = "ok"
                  THEN /\ CanSync(seed, SrvNums)
                       /\ remote' = SyncRows(remote, seed, nextSrv)
                       /\ nextSrv' = nextSrv + Len(seed)
                       /\ observations' = seed
                       /\ last' = Ret("list", "online", NoId, out2, "ok", NoObs)
                  ELSE /\ UNCHANGED <<remote, nextSrv, observations>>
                       /\ last' = Ret("list", "online", NoId, out2, "error", NoObs)
             ELSE /\ observations' = loadedObservations
                  /\ last' = Ret("list", IF online THEN "online" ELSE "offline",
                                 NoId, out, "ok", NoObs)
                  /\ UNCHANGED <<remote, nextSrv>>
    /\ ForgetDrain
    /\ UNCHANGED <<envVars, queue, issued, imp, d2>>

\* what the form submits for a new record (ObservationStats.tsx line 383)
FormObs == [id |-> FormId(clock), date |-> 1]

\* App.tsx lines 179-183
HandleCreate(out) ==
    /\ Loaded /\ Len(observations) < MaxCache
    /\ \/ SaveOffline(FormObs)
       \/ SaveUnauth(FormObs)
       \/ SaveOnline(FormObs, out)
    /\ observations' = IF last'.res = "ok"
                       THEN <<[FormObs EXCEPT !.id = last'.obs.id]>> \o observations
                       ELSE observations
    /\ UNCHANGED <<imp, d2>>

\* App.tsx lines 121-127 and 176-178
HandleEdit(observation, out) ==
    /\ Loaded
    /\ \/ UpdateOffline(observation)
       \/ UpdateOnline(observation, out)
    /\ observations' = IF last'.res = "ok"
                       THEN ReplaceById(observations, observation)
                       ELSE observations
    /\ UNCHANGED <<imp, d2>>

\* App.tsx lines 133-140
HandleDelete(id, out) ==
    /\ Loaded
    /\ \/ DeleteOffline(id)
       \/ DeleteOnline(id, out)
    /\ observations' = IF last'.res = "ok"
                       THEN RemoveById(observations, id)
                       ELSE observations
    /\ UNCHANGED <<imp, d2>>

\* deleteObservation(id) as the loop of App.tsx lines 163-165 calls it, on the
\* stores `st`; its rejection is caught and logged (line 164)
DeleteIn(st, id, out) ==
    IF ~online
    THEN [st EXCEPT !.queue = addToQueue(st.queue, "DELETE", [id |-> id], clock),
                    !.cache = RemoveById(st.cache, id),
                    !.issued = Append(st.issued, <<"DELETE", id>>)]
    ELSE IF out = "ok"
    THEN [st EXCEPT !.remote = RemoteDelete(st.remote, id, user),
                    !.cache = RemoveById(st.cache, id)]
    ELSE st

RECURSIVE DeleteAll(_, _, _)
\* App.tsx lines 163-165: `for (const id of ids)`
DeleteAll(st, ids, outs) ==
    IF ids = {} THEN st
    ELSE LET id == CHOOSE x \in ids : TRUE
         IN DeleteAll(DeleteIn(st, id, outs[id]), ids \ {id}, outs)

\* App.tsx lines 149-169
HandleBulkDelete(ids, outs) ==
    /\ Loaded
    /\ ~online => Len(queue) + Cardinality(ids) <= MaxQueue
    /\ \A id \in ids : (online /\ outs[id] = "ok") => IsUuid(id)
    /\ observations' = SelectSeq(observations, LAMBDA obs : obs.id \notin ids)
    /\ LET st == DeleteAll([queue |-> queue, cache |-> cache, remote |-> remote,
                            issued |-> issued], ids, outs)
       IN /\ queue' = st.queue
          /\ cache' = setLocalCache(st.cache)
          /\ remote' = st.remote
          /\ issued' = st.issued
    /\ last' = Ret("bulk", IF online THEN "online" ELSE "offline", NoId, "none", "ok", NoObs)
    /\ ForgetDrain
    /\ UNCHANGED <<envVars, nextSrv, imp, d2>>

\* App.tsx lines 198-224: the merge, then syncObservations answers `out`
HandleImport(batch, out) ==
    /\ Loaded
    /\ Len(Merge(observations, batch)) <= MaxCache
    /\ LET mergedObservations == Merge(observations, batch)
       IN IF out = "ok"
          THEN /\ CanSync(mergedObservations, SyncNums)
               /\ remote' = SyncRows(remote, mergedObservations, nextSrv)
               /\ nextSrv' = nextSrv + Len(mergedObservations)
               /\ observations' = mergedObservations
               /\ last' = Ret("import", "online", NoId, out, "ok", NoObs)
               /\ imp' = [cur |-> observations, batch |-> batch]
          ELSE /\ UNCHANGED <<remote, nextSrv, observations>>
               /\ last' = Ret("import", "online", NoId, out, "error", NoObs)
               /\ imp' = NoImport
    /\ ForgetDrain
    /\ UNCHANGED <<envVars, queue, cache, issued, d2>>

\* ids that only an imported file carries
ImpIds == {[k |-> "imp", n |-> 0], [k |-> "imp", n |-> 1]}

\* the ids a file can hold: those of the list or new ones
BatchIds == Ids(observations) \cup ImpIds

\* the parsed files (ObservationList.tsx lines 142-147), of MaxBatch records at
\* most; their records differ in content (dates 3, 4, ... no listed record has)
Batches ==
    {[k \in 1..Len(ids) |-> [id |-> ids[k], date |-> 2 + k]] :
        ids \in UNION {[1..n -> BatchIds] : n \in 0..MaxBatch}}

\* the records the list lets the user pick, edited
ShownEdits == {[id |-> i, date |-> 2] : i \in Ids(observations)}

\* the selections of the list
Selections == SUBSET Ids(observations) \ {{}}

AppHandlers ==
    \/ AppMount
    \/ \E out, out2 \in Outcomes, seed \in SeedChoices : LoadList(out, out2, seed)
    \/ \E out \in Outcomes : HandleCreate(out)
    \/ \E o \in ShownEdits, out \in Outcomes : HandleEdit(o, out)
    \/ \E id \in Ids(observations), out \in Outcomes : HandleDelete(id, out)
    \/ \E ids \in Selections : \E outs \in [ids -> Outcomes] : HandleBulkDelete(ids, outs)

\* the connection and the clock move; the list is shown to a signed-in user
\* only (App.tsx lines 320-322)
AppEnv ==
    \/ GoOnline /\ UNCHANGED appVars
    \/ GoOffline /\ UNCHANGED appVars
    \/ Tick /\ UNCHANGED appVars

\* the drain that loadData awaits (App.tsx line 55)
LoadDrain ==
    \/ DrainAuth /\ UNCHANGED appVars
    \/ \E out \in Outcomes : DrainCallDone(out) /\ UNCHANGED appVars
    \/ \E out \in Outcomes : DrainFetchDone(out) /\ UNCHANGED appVars

NextApp == AppEnv \/ AppHandlers \/ LoadDrain

\* the handlers of App that call the storage service for single records, one
\* at a time
SpecApp == Init /\ [][NextApp]_vars

\* the list has been loaded online from a store holding n records
InitMerge ==
    \E n \in 0..MaxCache :
        /\ online = TRUE /\ user = TRUE /\ clock = 0
        /\ queue = <<>>
        /\ remote = {[id |-> SrvId(i), date |-> 1] : i \in 1..n}
        /\ nextSrv = n + 1
        /\ cache = RemoteSelect(remote, TRUE)
        /\ observations = cache
        /\ dpc = "idle" /\ dq = <<>> /\ di = 0 /\ dnew = <<>> /\ douts = <<>>
        /\ dres = "none"
        /\ issued = <<>>
        /\ last = Ret("list", "online", NoId, "ok", "ok", NoObs)
        /\ imp = NoImport
        /\ d2 = NoDrain

NextMerge == \E batch \in Batches, out \in Outcomes : HandleImport(batch, out)

\* files imported one after the other into a loaded list
SpecMerge == InitMerge /\ [][NextMerge]_vars

\* ================================================================== claims
\* the last drain ran its loop and returned (lines 293-301)
DrainEnded == dpc = "idle" /\ dres \in {"kept", "refreshed", "nodata", "threw"}

\* positions of the log read by the last drain whose remote call failed
FailedPos == {douts[i][1] : i \in {j \in 1..Len(douts) : douts[j][2] \in Failures}}

\* positions for which a remote call was made and has answered
CalledPos == {douts[i][1] : i \in {j \in 1..Len(douts) : douts[j][2] # "nocall"}}

Mutations == {"save", "update", "delete"}

\* C1: when a drain has ended, every entry whose remote call failed (rejected
\* promise or error result) is still in the persisted log.
C1_FailedEntriesStayQueued ==
    DrainEnded => \A p \in FailedPos : \E j \in 1..Len(queue) : queue[j] = dq[p]

C3_LogMatchesOfflineCalls == Proj(queue) = issued

C3_Witness ==
    /\ last.op = "restart"
    /\ Len(queue) = 2
    /\ queue[1].action = "INSERT" /\ queue[2].action = "DELETE"

\* C4: right after an offline create the cache (what list() returns offline)
\* holds the returned record, whose id is not empty and is a temp- placeholder
\* when none was supplied, and that record is the payload of the INSERT entry
\* at the end of the log.
C4_OfflineCreateIsVisible ==
    (last.op = "save" /\ last.path = "offline")
        => /\ last.res = "ok"
           /\ \E i \in 1..Len(getLocalCache) : getLocalCache[i] = last.obs
           /\ last.obs.id # NoId
           /\ (last.arg = NoId => StartsWithTemp(last.obs.id))
           /\ Len(queue) > 0
           /\ queue[Len(queue)].action = "INSERT"
           /\ queue[Len(queue)].payload = last.obs

C4_Witness ==
    /\ last.op = "save" /\ last.path = "offline" /\ last.arg = NoId
    /\ Len(cache) = 2

\* C5: a drain that ran online with a user and saw no remote call fail ends
\* with an empty log and no placeholder id left in the cache.
C5_AcceptedDrainEmptiesLog ==
    (DrainEnded /\ FailedPos = {})
        => /\ Len(queue) = 0
           /\ \A i \in 1..Len(cache) : ~StartsWithTemp(cache[i].id)

C7_KeptDrainLeavesCache ==
    /\ [][(dpc # "idle" /\ dpc' = "idle" /\ Len(queue') > 0)
            => (dpc # "fetch" /\ cache' = cache)]_vars
    /\ [][(dpc \in {"auth", "call"}) => (cache' = cache)]_vars

C7_Witness ==
    /\ DrainEnded /\ dres = "kept"
    /\ Len(queue) > 0 /\ Len(cache) > 0
    /\ CalledPos # {}

\* C8: a drain that ran its loop ends by a full fetch if and only if the
\* remote call of every entry it read succeeded, and when the fetch answers
\* the cache is what the store returns.
C8_RefreshIffAllSucceeded ==
    [][(dpc # "idle" /\ DrainEnded')
        => /\ (dpc = "fetch") <=> (\A k \in 1..Len(douts') : douts'[k][2] = "ok")
           /\ dres' = "refreshed" => cache' = RemoteSelect(remote', user')]_vars

\* C9: a drain called offline, or with an empty log, returns at once: it
\* suspends on no call and leaves store, log and cache as they were.
C9_SkippedDrainChangesNothing ==
    [][(dpc = "idle" /\ last' = DrainRan /\ (~online \/ Len(queue) = 0))
        => (dpc' = "idle" /\ UNCHANGED <<remote, nextSrv, queue, cache>>)]_vars

C9_Witness ==
    /\ dpc = "idle" /\ dres = "offline" /\ last = DrainRan
    /\ ~online /\ Len(queue) > 0

\* C10: when the connectivity goes from offline to online with entries in the
\* log and no drain running, a drain is started.
C10_ReconnectStartsDrain ==
    [][(~online /\ online' /\ Len(queue) > 0 /\ dpc = "idle") => dpc' = "auth"]_vars

\* C11: at most one drain is in flight, and no entry of the log has its remote
\* call in flight from two drains at once.
C11_SingleDrainInFlight ==
    /\ dpc = "idle" \/ d2.pc = "idle"
    /\ ~(/\ dpc = "call" /\ d2.pc = "call"
         /\ dq[IterationOrder(dq)[di]] = d2.q[IterationOrder(d2.q)[d2.i]])

\* C12: when a drain writes the log back, every entry appended to the log
\* since the drain read it is still in the log; when its full fetch replaces
\* the cache, every cached record whose INSERT is still queued stays cached.
C12_WriteBackKeepsLaterEntries ==
    /\ [][(dpc \in {"auth", "call"} /\ dpc' \in {"fetch", "idle"}
              /\ dres' \in {"kept", "running"})
            => \A j \in (Len(dq) + 1)..Len(queue) :
                   \E k \in 1..Len(queue') : queue'[k] = queue[j]]_vars
    /\ [][(dpc = "fetch" /\ dres' = "refreshed")
            => \A j \in 1..Len(queue) :
                   (queue[j].action = "INSERT"
                       /\ \E i \in 1..Len(cache) : cache[i] = queue[j].payload)
                   => \E i \in 1..Len(cache') : cache'[i] = queue[j].payload]_vars

\* C13: the cache never holds two entries with the same id.
C13_CacheIdsUnique ==
    \A i, j \in 1..Len(cache) : cache[i].id = cache[j].id => i = j

\* C14: a drain makes a remote call for every INSERT entry it reads whose
\* record carries a temp- placeholder id, and no row of the store has a
\* placeholder id as its key.
C14_PlaceholderInsertIsCreated ==
    /\ DrainEnded =>
          \A k \in 1..Len(douts) :
              (dq[douts[k][1]].action = "INSERT"
                  /\ StartsWithTemp(dq[douts[k][1]].payload.id))
              => douts[k][2] # "nocall"
    /\ \A r \in remote : ~StartsWithTemp(r.id)

\* C15: for every queued entry other than an INSERT with a placeholder id, the
\* remote call the drain is written to make for it is idempotent: applied to a
\* store that has already applied it, it leaves the store as it is.
C15_ResubmitIsHarmless ==
    \A j \in 1..Len(queue) :
        (queue[j].action # "INSERT" \/ ~StartsWithTemp(queue[j].payload.id))
        => LET once == ApplyItem(remote, queue[j], nextSrv, TRUE)
           IN ApplyItem(once, queue[j], nextSrv + 1, TRUE) = once

\* C16: a create, update or delete called online while no user is
\* authenticated rejects, appends nothing to the log and leaves the cache and
\* the store as they were.
C16_UnauthenticatedIsRejected ==
    [][(online /\ ~user /\ last' # last /\ last'.op \in Mutations)
        => (last'.res = "error" /\ UNCHANGED <<queue, cache, remote>>)]_vars

UniqueIds(list) == \A i, j \in 1..Len(list) : list[i].id = list[j].id => i = j

\* C18: whenever the list is shown and no handler runs, the list and the cache
\* hold the same set of record ids.
C18_ListMatchesCache ==
    Loaded => Ids(observations) = Ids(cache)

\* C19: after an import into a list with unique ids, the list holds one record
\* per id of the old list and of the file; the old positions keep their ids,
\* hold the old record when the file has not its id and a record of the file
\* when it has; the positions after them hold records of the file with new ids.
C19_MergeByIdInPlace ==
    (last.op = "import" /\ last.res = "ok" /\ UniqueIds(imp.cur)) =>
        /\ UniqueIds(observations)
        /\ Ids(observations) = Ids(imp.cur) \cup Ids(imp.batch)
        /\ Len(observations) >= Len(imp.cur)
        /\ \A i \in 1..Len(imp.cur) :
              /\ observations[i].id = imp.cur[i].id
              /\ imp.cur[i].id \notin Ids(imp.batch) => observations[i] = imp.cur[i]
              /\ imp.cur[i].id \in Ids(imp.batch) =>
                    observations[i] \in SeqToSet(imp.batch)
        /\ \A i \in (Len(imp.cur) + 1)..Len(observations) :
              /\ observations[i] \in SeqToSet(imp.batch)
              /\ observations[i].id \notin Ids(imp.cur)

C19_Witness ==
    /\ last.op = "import" /\ last.res = "ok"
    /\ Len(imp.cur) = 1 /\ Len(imp.batch) = 2
    /\ imp.batch[1].id = imp.cur[1].id
    /\ imp.batch[2].id \notin Ids(imp.cur)
    /\ Len(observations) = 2

C21_ImportReachesStoreAndCache ==
    (last.op = "import" /\ last.res = "ok") =>
        /\ \A i \in 1..Len(observations) :
              \E r \in remote : r.date = observations[i].date
        /\ getLocalCache = Merge(imp.cur, imp.batch)

RECURSIVE AtPositions(_, _, _)
\* the entries of q at the positions of `ps`, in the order of q
AtPositions(q, ps, p) ==
    IF p > Len(q) THEN <<>>
    ELSE (IF p \in ps THEN <<q[p]>> ELSE <<>>) \o AtPositions(q, ps, p + 1)

\* positions whose processing did not succeed, among the outcomes `outs`
NotOk(outs) == {outs[i][1] : i \in {j \in 1..Len(outs) : outs[j][2] # "ok"}}

\* C22: whatever the remote call of an entry answers, the drain goes on: it
\* either makes the call of the next entry or, every entry read having been
\* processed, writes the log back and returns normally; the log written back
\* holds only entries whose processing failed.
C22_FailureDoesNotStopThePass ==
    [][(dpc \in {"auth", "call"} /\ Len(douts') > Len(douts))
        => \/ dpc' = "call" /\ IterationOrder(dq)[di'] = Len(douts') + 1
           \/ /\ dpc' \in {"fetch", "idle"}
              /\ dres' \in {"kept", "running"}
              /\ Len(douts') = Len(dq)
              /\ \E P \in SUBSET NotOk(douts') : queue' = AtPositions(dq, P, 1)]_vars

C22_Witness ==
    /\ DrainEnded /\ dres = "kept"
    /\ Len(dq) = 2 /\ Len(douts) = 2
    /\ douts[1][2] = "throw" /\ douts[2][2] = "ok"
    /\ queue = <<dq[1]>>

\* getObservations has just returned
ListReturned == last' # last /\ last'.op = "list"

\* C23: getObservations called offline, or online with a fetch that fails,
\* returns the cache and leaves it as it is; with a fetch that succeeds it
\* replaces the cache by the fetched records and returns them.
C23_ListFallsBackToCache ==
    [][ListReturned =>
          IF online /\ last'.out = "ok"
          THEN /\ cache' = RemoteSelect(remote, user)
               /\ last'.list = cache'
          ELSE /\ last'.list = cache
               /\ cache' = cache]_vars

C23_Witness ==
    /\ last.op = "list" /\ last.path = "online" /\ last.out = "err"
    /\ Len(last.list) = 2 /\ last.list = cache
    /\ Cardinality(remote) < 2

\* C24: an update or a delete called offline with an id that no cached record
\* carries appends nothing to the log, so that every UPDATE or DELETE entry
\* names a record that was cached when it was queued.
C24_QueuedEditsNameCachedRecords ==
    [][(last' # last /\ last'.op \in {"update", "delete"} /\ last'.path = "offline"
            /\ last'.arg \notin Ids(cache))
        => queue' = queue]_vars

\* C25: a record whose INSERT is in the log, with no DELETE of its id queued
\* after it, is in the cache.
C25_PendingInsertsStayCached ==
    \A j \in 1..Len(queue) :
        (/\ queue[j].action = "INSERT"
         /\ \A l \in (j + 1)..Len(queue) :
               ~(queue[l].action = "DELETE" /\ queue[l].payload.id = queue[j].payload.id))
        => queue[j].payload.id \in Ids(cache)

RECURSIVE DrainEffect(_, _, _, _)
\* the store after the remote call written for each entry of q from position k
\* on (lines 275-285) has been made in log order and applied, n being the next
\* id the table generates
DrainEffect(rem, q, k, n) ==
    IF k > Len(q) THEN rem
    ELSE DrainEffect(ApplyItem(rem, q[k], n, TRUE), q, k + 1,
                     IF q[k].action = "INSERT" THEN n + 1 ELSE n)

\* C26: when the log is the INSERT of a record with a placeholder id followed
\* by an UPDATE or a DELETE of that id, the calls the drain makes for the two
\* entries, all applied, leave in the store one new row with the content of
\* the UPDATE, and no new row for the DELETE.
C26_LaterEntriesReachTheInsertedRow ==
    (/\ Len(queue) = 2
     /\ queue[1].action = "INSERT" /\ StartsWithTemp(queue[1].payload.id)
     /\ queue[2].action # "INSERT" /\ queue[2].payload.id = queue[1].payload.id)
    => LET added == DrainEffect(remote, queue, 1, nextSrv) \ remote
       IN IF queue[2].action = "UPDATE"
          THEN \E r \in added : added = {r} /\ r.date = queue[2].payload.date
          ELSE added = {}

\* cached records that were created offline (their id is not one the store
\* generated) and have not been deleted since
OfflineMade == {i \in 1..Len(cache) : ~IsUuid(cache[i].id)}

\* C27: when a drain has ended and the log is empty, every record that was
\* created offline and not deleted has a row of its content in the store, and
\* the store holds at least one row per such record.
C27_OfflineCreatesReachStoreOnce ==
    (DrainEnded /\ Len(queue) = 0) =>
        /\ \A i \in OfflineMade : \E r \in remote : r.date = cache[i].date
        /\ Cardinality(remote) >= Cardinality(OfflineMade)

\* C28: when a create, update or delete called online reports an error to its
\* caller, the cache and the log are as they were before the call.
C28_OnlineErrorLeavesLocalState ==
    [][(online /\ last' # last /\ last'.op \in Mutations /\ last'.res = "error")
        => UNCHANGED <<cache, queue>>]_vars

C28_Witness ==
    /\ last.op = "delete" /\ last.path = "online" /\ last.res = "error"
    /\ last.out = "err"
    /\ last.arg \in Ids(cache)
    /\ Len(queue) > 0

\* C29: a drain that finds no authenticated user returns without a remote
\* call, and leaves the store, the log and the cache as they were.
C29_DrainWithoutUserDoesNothing ==
    /\ [][(dpc = "auth" /\ ~user /\ dpc' # "auth" /\ last' = DrainRan)
            => (dpc' = "idle" /\ UNCHANGED <<remote, nextSrv, queue, cache>>)]_vars
    /\ [](dres = "noauth" => (douts = <<>> /\ queue = dq))

C29_Witness ==
    /\ dpc = "idle" /\ dres = "noauth" /\ last = DrainRan
    /\ online /\ ~user
    /\ Len(queue) = 2 /\ Len(cache) > 0

RECURSIVE IsSubsequence(_, _)
\* whether s is t with some entries left out, the others in the same order
IsSubsequence(s, t) ==
    IF s = <<>> THEN TRUE
    ELSE IF t = <<>> THEN FALSE
    ELSE IF Head(s) = Head(t) THEN IsSubsequence(Tail(s), Tail(t))
    ELSE IsSubsequence(s, Tail(t))

\* C30: the log a drain writes back is the log it read with some entries left
\* out: the entries kept are unchanged and in the order they were queued.
C30_WriteBackKeepsOrder ==
    (dpc = "fetch" \/ DrainEnded) => IsSubsequence(queue, dq)

C30_Witness ==
    /\ DrainEnded /\ dres = "kept"
    /\ Len(dq) = 2 /\ queue = dq
    /\ dq[1] # dq[2]
    /\ douts[1][2] = "throw" /\ douts[2][2] = "throw"

====
